---------------------------- MODULE Spec2Model ----------------------------
(***************************************************************************)
(* discord-fuse: a FUSE filesystem over a chat service.  main() builds the *)
(* inode table (FileTree) once from the guild and channel listings of the  *)
(* HTTP client, then serves lookup / getattr / open / read / write /       *)
(* readdir from it.                                                        *)
(*                                                                         *)
(* Text is modelled by TLA+ strings (names, rendered transcripts; the      *)
(* alphabet used is ASCII, so characters and bytes coincide) and by        *)
(* sequences of bytes 0..255 where the bytes need not be UTF-8 (the data   *)
(* of a write and the text posted for it).  u64 identifiers are small      *)
(* naturals.  The HTTP client is the environment: what it returns is       *)
(* drawn from bounded sets.                                                *)
(***************************************************************************)
EXTENDS Integers, Sequences, FiniteSets, TLC

VARIABLES
    phase,    \* position of main(): "start", "mounted", "exited" (the build
              \* failed) or "panicked" (a handler panicked under fuse::mount)
    guilds,   \* what get_guilds returned to build_file_tree (kept for reference)
    files,    \* DiscordFS.files : FileTree = BTreeMap<u64, DiscordFile>
    call,     \* the filesystem request handled last
    reply,    \* what the handler answered to it
    writes,   \* the write requests on channel files, in the order handled
    posts,    \* the ChannelId::say calls made on the HTTP client, in order
    known     \* a caller's list of assigned names (unique_name's known_names)

vars == <<phase, guilds, files, call, reply, writes, posts, known>>

-----------------------------------------------------------------------------
(* Bounds of the model.                                                    *)

\* guilds plus channels the HTTP client returns to one build_file_tree
MaxRecords == 4
\* largest offset a read request carries
MaxOffset == 12
\* largest offset a readdir request carries
MaxDirOffset == 3
\* messages one get_messages call returns
MaxMessages == 2
\* write requests in one run
MaxWrites == 2
\* names assigned through one known_names list
MaxKnown == 5

-----------------------------------------------------------------------------
(* Program constants.                                                      *)

\* ROOT_DIR_ATTR.ino, and the literal 1 the handlers compare inodes with
ROOT_INO == 1
\* libc error numbers
ENOENT == 2
EIO == 5
\* fuse::consts::FOPEN_DIRECT_IO
FOPEN_DIRECT_IO == 1
\* const TTL: Duration::from_secs(1)
TTL == 1
\* u32::MAX as u64 (beyond TLC's integers, hence kept as a numeral)
U32_MAX == "4294967295"

EmptyTree == [k \in {} |-> 0]
NoCall == [op |-> "none"]
NoReply == [kind |-> "none"]

-----------------------------------------------------------------------------
(* Small helpers on sequences and ordered maps.                            *)

Contains(s, x) == \E i \in DOMAIN s : s[i] = x

\* BTreeMap::insert: a later insertion under the same key replaces the record
Insert(tree, k, v) ==
    [x \in (DOMAIN tree) \cup {k} |-> IF x = k THEN v ELSE tree[x]]

RECURSIVE SortedSeq(_)
\* the elements of a finite set of numbers, ascending (BTreeMap iteration order)
SortedSeq(S) ==
    IF S = {} THEN <<>>
    ELSE LET m == CHOOSE x \in S : \A y \in S : x <= y
         IN  <<m>> \o SortedSeq(S \ {m})

RECURSIVE Reverse(_)
Reverse(s) == IF s = <<>> THEN <<>> ELSE Reverse(Tail(s)) \o <<Head(s)>>

RECURSIVE ConcatStr(_)
\* Iterator::collect::<String>() of a sequence of strings
ConcatStr(s) == IF s = <<>> THEN "" ELSE Head(s) \o ConcatStr(Tail(s))

Digit(d) == <<"0", "1", "2", "3", "4", "5", "6", "7", "8", "9">>[d + 1]

RECURSIVE Decimal(_)
\* Display of an unsigned integer: "{}"
Decimal(n) == IF n < 10 THEN Digit(n) ELSE Decimal(n \div 10) \o Digit(n % 10)

RECURSIVE ZeroPad(_, _)
\* "{:04}" pads on the left with zeros up to the width, and never truncates
ZeroPad(s, width) == IF Len(s) >= width THEN s ELSE ZeroPad("0" \o s, width)

-----------------------------------------------------------------------------
(* unique_name (main.rs 233-247).                                          *)

\* format!("{} ({})", base, i)
Suffixed(base, i) == base \o " (" \o Decimal(i) \o ")"

\* FirstFreeSuffix taking the suffix i without looking it up in the list
FirstFreeSuffix_unchecked(base, known_names, i) == Suffixed(base, i)

RECURSIVE FirstFreeSuffix(_, _, _)
\* for i in 1.. { name = format!(..); if !known_names.contains(&name) { break } }
FirstFreeSuffix(base, known_names, i) ==
    LET name == Suffixed(base, i)
    IN  IF ~Contains(known_names, name) THEN name
        ELSE FirstFreeSuffix(base, known_names, i + 1)

\* unique_name without the membership tests: the base name as it is
unique_name_unchecked(base, known_names) == base

\* unique_name numbering the suffixes from 0
unique_name_from_zero(base, known_names) ==
    IF Contains(known_names, base)
    THEN FirstFreeSuffix(base, known_names, 0)
    ELSE base

unique_name(base, known_names) ==
    IF Contains(known_names, base)
    THEN FirstFreeSuffix(base, known_names, 1)
    ELSE base

-----------------------------------------------------------------------------
(* build_file_tree (main.rs 249-325).                                      *)

\* the FileAttr of a guild directory (main.rs 267-282); times are UNIX_EPOCH,
\* sizes are numerals (see U32_MAX)
GuildAttr(id) ==
    [ino |-> id, size |-> "0", blocks |-> 0, atime |-> 0, mtime |-> 0,
     ctime |-> 0, crtime |-> 0, kind |-> "Directory", perm |-> 365,
     nlink |-> 2, uid |-> 501, gid |-> 20, rdev |-> 0, flags |-> 0]

\* the FileAttr of a channel file (main.rs 304-319)
ChannelAttr(id) ==
    [ino |-> id, size |-> U32_MAX, blocks |-> 0, atime |-> 0, mtime |-> 0,
     ctime |-> 0, crtime |-> 0, kind |-> "RegularFile", perm |-> 420,
     nlink |-> 1, uid |-> 501, gid |-> 20, rdev |-> 0, flags |-> 0]

\* the DiscordFile inserted for a guild (main.rs 263-283)
GuildFile(guild_id, name) ==
    [filename |-> name,
     ty       |-> [kind |-> "Guild"],
     parent   |-> 1,
     attr     |-> GuildAttr(guild_id)]

\* ChannelFile with the parent of a guild record
ChannelFile_under_root(guild_id, key, name) ==
    [filename |-> name,
     ty       |-> [kind |-> "ChannelFile", guild |-> guild_id, channel |-> key],
     parent   |-> 1,
     attr     |-> ChannelAttr(key)]

\* the DiscordFile inserted for a text channel (main.rs 300-320)
ChannelFile(guild_id, key, name) ==
    [filename |-> name,
     ty       |-> [kind |-> "ChannelFile", guild |-> guild_id, channel |-> key],
     parent   |-> guild_id,
     attr     |-> ChannelAttr(key)]

\* guild.id.channels(&client): the channels of one guild, as the returned
\* HashMap iterates them
ChannelsOf(client, guild_id) ==
    SelectSeq(client.chans, LAMBDA c : c.guild = guild_id)

RECURSIVE ChannelLoop(_, _, _, _)
\* for (key, value) in &channels { ... } (main.rs 290-322)
ChannelLoop(fs, channel_names, channels, guild_id) ==
    IF channels = <<>> THEN fs
    ELSE LET value == Head(channels)
         IN  IF value.kind # "Text"
             THEN ChannelLoop(fs, channel_names, Tail(channels), guild_id)
             ELSE LET name == unique_name(value.name, channel_names)
                  IN  ChannelLoop(
                          Insert(fs, value.id, ChannelFile(guild_id, value.id, name)),
                          Append(channel_names, name),
                          Tail(channels),
                          guild_id)

RECURSIVE GuildLoop(_, _, _, _)
\* for guild in &guilds { ... } (main.rs 257-323); client.fail = i + 1 is the
\* `?` on the channel listing of the i-th guild returning the error
GuildLoop(client, fs, guild_names, i) ==
    IF i > Len(client.guilds) THEN [ok |-> TRUE, files |-> fs]
    ELSE LET guild == client.guilds[i]
             name  == unique_name(guild.name, guild_names)
             fs1   == Insert(fs, guild.id, GuildFile(guild.id, name))
         IN  IF client.fail = i + 1 THEN [ok |-> FALSE, files |-> EmptyTree]
             ELSE GuildLoop(client,
                            ChannelLoop(fs1, <<>>, ChannelsOf(client, guild.id), guild.id),
                            Append(guild_names, name),
                            i + 1)

\* client.fail = 1 is the `?` on get_guilds returning the error
build_file_tree(client) ==
    IF client.fail = 1 THEN [ok |-> FALSE, files |-> EmptyTree]
    ELSE GuildLoop(client, EmptyTree, <<>>, 1)

-----------------------------------------------------------------------------
(* The HTTP client, as far as build_file_tree sees it: the guild page, the *)
(* channel listings, and which request (if any) fails.  Guild and channel  *)
(* identifiers are distinct, and none is 1: they come from one identifier  *)
(* space of the service.  Identifiers matter to the table only through     *)
(* their order, so n guilds carry the identifiers 2..n+1 in any order and  *)
(* the channels the identifiers above them, in any order.                  *)

Names == {"a", "a (1)"}

Perms(S) ==
    {p \in [1..Cardinality(S) -> S] : \A i, j \in DOMAIN p : p[i] = p[j] => i = j}

GuildIds(g) == (ROOT_INO + 1)..(ROOT_INO + g)

ChannelIds(c) == (ROOT_INO + MaxRecords + 1)..(ROOT_INO + MaxRecords + c)

GuildSeqs(g) ==
    {[i \in 1..g |-> [id |-> p[i], name |-> nm[i]]] :
        p \in Perms(GuildIds(g)), nm \in [1..g -> Names]}

ChannelShapes(g) ==
    [guild : GuildIds(g), name : Names, kind : {"Text", "Voice"}]

ChannelSeqs(g, c) ==
    {[i \in 1..c |-> [id |-> p[i], guild |-> sh[i].guild,
                      name |-> sh[i].name, kind |-> sh[i].kind]] :
        p \in Perms(ChannelIds(c)), sh \in [1..c -> ChannelShapes(g)]}

\* every answer within the bound, all requests succeeding
ClientsWithin(bound) ==
    UNION {{[guilds |-> gs, chans |-> cs, fail |-> 0] :
                gs \in GuildSeqs(n[1]), cs \in ChannelSeqs(n[1], n[2])} :
           n \in {m \in (0..bound) \X (0..bound) :
                      m[1] + m[2] <= bound /\ (m[2] > 0 => m[1] > 0)}}

\* an answer in which get_guilds or a channel listing fails
FailingClients ==
    {[guilds |-> gs, chans |-> <<>>, fail |-> k] :
        gs \in GuildSeqs(1), k \in 1..2}

\* one guild holding two text channels of the same name and a voice channel
IOClients ==
    {[guilds |-> <<[id |-> 2, name |-> "a"]>>,
      chans  |-> <<[id |-> 7, guild |-> 2, name |-> "a", kind |-> "Text"],
                   [id |-> 6, guild |-> 2, name |-> "a", kind |-> "Voice"],
                   [id |-> 5, guild |-> 2, name |-> "a", kind |-> "Text"]>>,
      fail   |-> 0]}

-----------------------------------------------------------------------------
(* main (main.rs 327-351): build the table, then mount.                    *)

Init ==
    /\ phase = "start"
    /\ guilds = <<>>
    /\ files = EmptyTree
    /\ call = NoCall
    /\ reply = NoReply
    /\ writes = <<>>
    /\ posts = <<>>
    /\ known = <<>>

mainOn(clients) ==
    /\ phase = "start"
    /\ \E client \in clients :
          LET built == build_file_tree(client)
          IN  /\ guilds' = client.guilds
              /\ IF built.ok
                 THEN phase' = "mounted" /\ files' = built.files
                 ELSE phase' = "exited" /\ files' = EmptyTree
    /\ UNCHANGED <<call, reply, writes, posts, known>>

main == mainOn(ClientsWithin(MaxRecords) \cup FailingClients)

-----------------------------------------------------------------------------
(* The handlers served from the table alone: lookup, getattr, open,        *)
(* readdir (main.rs 66-107, 187-230).                                      *)

ErrorReply(errno) == [kind |-> "error", errno |-> errno]

\* fuse::mount runs the session loop: one request is read and dispatched, its
\* handler replies, and only then is the next request read
Idle == phase = "mounted" /\ call = NoCall

\* an inode number the table never holds
UnknownIno == ROOT_INO + 2 * MaxRecords + 1

Inodes == {ROOT_INO, UnknownIno} \cup DOMAIN files

\* a name as the kernel hands it over, an OsStr: bytes that are the UTF-8 of
\* a string, or bytes that are not UTF-8 at all
OsStr(str) == [utf8 |-> TRUE, str |-> str]

NotUtf8(bytes) == [utf8 |-> FALSE, bytes |-> bytes]

\* the names a lookup may ask for: those assigned, the raw ones, a stranger,
\* and the single byte FF
LookupNames ==
    {OsStr(n) : n \in Names \cup {files[k].filename : k \in DOMAIN files}
                         \cup {"Nonexistent"}}
        \cup {NotUtf8(<<255>>)}

\* a panic unwinding out of the handler: no reply is sent
Panicked == [kind |-> "panic"]

\* name.to_str().expect("Bad name!") panics on a name that is not UTF-8; then
\* self.files.iter().filter(parent).find(filename): the first match in key order
lookup_reply(fs, parent, name) ==
    IF ~name.utf8 THEN Panicked
    ELSE LET matching == {k \in DOMAIN fs :
                             fs[k].parent = parent /\ fs[k].filename = name.str}
         IN  IF matching # {}
             THEN [kind |-> "entry", ttl |-> TTL,
                   attr |-> fs[Head(SortedSeq(matching))].attr, generation |-> 0]
             ELSE ErrorReply(ENOENT)

getattr_reply(fs, ino) ==
    IF ino = 1
    THEN [kind |-> "attr", ttl |-> TTL,
          attr |-> [ino |-> 1, size |-> "0", blocks |-> 0, atime |-> 0, mtime |-> 0,
                    ctime |-> 0, crtime |-> 0, kind |-> "Directory", perm |-> 493,
                    nlink |-> 2, uid |-> 501, gid |-> 20, rdev |-> 0, flags |-> 0]]
    ELSE IF ino \in DOMAIN fs
         THEN [kind |-> "attr", ttl |-> TTL, attr |-> fs[ino].attr]
         ELSE ErrorReply(ENOENT)

\* the FileType readdir reports for a record (main.rs 213-216)
DirEntryType(file) ==
    IF file.ty.kind = "Guild" THEN "Directory" ELSE "RegularFile"

\* entries.chain(files): ".", "..", then the records whose parent is ino, in
\* key order
DirListing(fs, ino) ==
    LET children == SortedSeq({k \in DOMAIN fs : fs[k].parent = ino})
    IN  <<[ino |-> 1, kind |-> "Directory", name |-> "."],
          [ino |-> 1, kind |-> "Directory", name |-> ".."]>>
        \o [j \in 1..Len(children) |->
                [ino  |-> children[j],
                 kind |-> DirEntryType(fs[children[j]]),
                 name |-> fs[children[j]].filename]]

\* DirEntriesFrom adding each entry with its own index i instead of i + 1
DirEntriesFrom_own_index(listing, offset) ==
    [j \in 1..(IF Len(listing) > offset THEN Len(listing) - offset ELSE 0) |->
        [ino    |-> listing[offset + j].ino,
         offset |-> offset + j - 1,
         kind   |-> listing[offset + j].kind,
         name   |-> listing[offset + j].name]]

\* .enumerate().skip(offset).for_each(|(i, e)| reply.add(ino, i + 1, ty, name)):
\* the entry at 0-based index i is added with offset i + 1
DirEntriesFrom(listing, offset) ==
    [j \in 1..(IF Len(listing) > offset THEN Len(listing) - offset ELSE 0) |->
        [ino    |-> listing[offset + j].ino,
         offset |-> (offset + j - 1) + 1,
         kind   |-> listing[offset + j].kind,
         name   |-> listing[offset + j].name]]

readdir_reply(fs, ino, offset) ==
    IF ino \in DOMAIN fs \/ ino = 1
    THEN [kind |-> "directory", entries |-> DirEntriesFrom(DirListing(fs, ino), offset)]
    ELSE ErrorReply(ENOENT)

lookup ==
    /\ Idle
    /\ \E parent \in Inodes, name \in LookupNames :
          /\ call' = [op |-> "lookup", parent |-> parent, name |-> name]
          /\ reply' = lookup_reply(files, parent, name)
          /\ phase' = IF reply' = Panicked THEN "panicked" ELSE phase
    /\ UNCHANGED <<guilds, files, writes, posts, known>>

getattr ==
    /\ Idle
    /\ \E ino \in Inodes :
          /\ call' = [op |-> "getattr", ino |-> ino]
          /\ reply' = getattr_reply(files, ino)
    /\ UNCHANGED <<phase, guilds, files, writes, posts, known>>

open ==
    /\ Idle
    /\ \E ino \in Inodes, flags \in {0, 1} :
          /\ call' = [op |-> "open", ino |-> ino, flags |-> flags]
          /\ reply' = [kind |-> "opened", fh |-> 0, flags |-> FOPEN_DIRECT_IO]
    /\ UNCHANGED <<phase, guilds, files, writes, posts, known>>

readdir ==
    /\ Idle
    /\ \E ino \in Inodes, offset \in 0..MaxDirOffset :
          /\ call' = [op |-> "readdir", ino |-> ino, offset |-> offset]
          /\ reply' = readdir_reply(files, ino, offset)
    /\ UNCHANGED <<phase, guilds, files, writes, posts, known>>

\* the session loop turns to the next request; the table is as it was
next_request ==
    /\ phase = "mounted"
    /\ call # NoCall
    /\ call' = NoCall
    /\ reply' = NoReply
    /\ UNCHANGED <<phase, guilds, files, writes, posts, known>>

Next == main \/ lookup \/ getattr \/ open \/ readdir \/ next_request

Spec == Init /\ [][Next]_vars

-----------------------------------------------------------------------------
(* read (main.rs 109-158).                                                 *)

\* what get_messages may return: an error, or the recent messages, newest
\* first
MessageShapes ==
    [author : {"a", "b"}, discriminator : {1, 42}, content : {"h"},
     attachments : {<<>>, <<"u">>, <<"u", "v">>}]

RECURSIVE SeqsUpTo(_, _)
SeqsUpTo(S, n) ==
    IF n = 0 THEN {<<>>}
    ELSE LET shorter == SeqsUpTo(S, n - 1)
         IN  shorter \cup {Append(q, x) : q \in {r \in shorter : Len(r) = n - 1}, x \in S}

Fetches ==
    {[ok |-> FALSE, msgs |-> <<>>]}
        \cup {[ok |-> TRUE, msgs |-> m] : m \in SeqsUpTo(MessageShapes, MaxMessages)}

\* message.attachments.iter().map(|att| format!("{} ", att.url)).collect()
AttachmentUrls(message) ==
    ConcatStr([j \in 1..Len(message.attachments) |-> message.attachments[j] \o " "])

\* format!("{}#{:04}: {}\n", name, discriminator, body) (main.rs 137-146)
RenderMessage(message) ==
    message.author \o "#" \o ZeroPad(Decimal(message.discriminator), 4) \o ": "
        \o (IF message.attachments = <<>>
            THEN message.content
            ELSE message.content \o " " \o AttachmentUrls(message))
        \o "\n"

\* RenderChannel without the reverse: newest first, as fetched
RenderChannel_as_fetched(channel) ==
    ConcatStr([j \in 1..Len(channel) |-> RenderMessage(channel[j])])

\* channel.reverse(); channel.iter().map(render).collect::<String>()
RenderChannel(channel) ==
    LET oldest_first == Reverse(channel)
    IN  ConcatStr([j \in 1..Len(oldest_first) |-> RenderMessage(oldest_first[j])])

\* the slice replied for a transcript and a non-negative offset (main.rs 149-153)
ReadSlice(msgs, offset) ==
    IF offset > 0 /\ offset >= Len(msgs)
    THEN ""
    ELSE SubSeq(msgs, offset + 1, Len(msgs))

read_reply(fs, ino, offset, fetched) ==
    IF ino \in DOMAIN fs /\ fs[ino].ty.kind = "ChannelFile" /\ fetched.ok
    THEN [kind |-> "data", data |-> ReadSlice(RenderChannel(fetched.msgs), offset)]
    ELSE ErrorReply(ENOENT)

\* offsets are those the kernel sends: never negative
read ==
    /\ Idle
    /\ \E ino \in Inodes, offset \in 0..MaxOffset, size \in {1, 4096},
          fetched \in Fetches :
          /\ call' = [op |-> "read", ino |-> ino, offset |-> offset,
                      size |-> size, fetched |-> fetched]
          /\ reply' = read_reply(files, ino, offset, fetched)
    /\ UNCHANGED <<phase, guilds, files, writes, posts, known>>

NextRead == mainOn(IOClients) \/ read \/ next_request

SpecRead == Init /\ [][NextRead]_vars

-----------------------------------------------------------------------------
(* write (main.rs 160-185).                                                *)

\* the byte at 1-based position j, or 0 past the end
ByteAt(s, j) == IF j <= Len(s) THEN s[j] ELSE 0

\* a UTF-8 continuation byte, 10xxxxxx
IsContinuation(b) == b >= 128 /\ b <= 191

\* the length a first byte announces; 0 for a byte that cannot start a character
Utf8Width(b) ==
    IF b < 128 THEN 1
    ELSE IF b >= 194 /\ b <= 223 THEN 2
    ELSE IF b >= 224 /\ b <= 239 THEN 3
    ELSE IF b >= 240 /\ b <= 244 THEN 4
    ELSE 0

\* the range the second byte of a 3- or 4-byte character must lie in
SecondByteOk(first, second) ==
    IF first = 224 THEN second >= 160 /\ second <= 191
    ELSE IF first = 237 THEN second >= 128 /\ second <= 159
    ELSE IF first = 240 THEN second >= 144 /\ second <= 191
    ELSE IF first = 244 THEN second >= 128 /\ second <= 143
    ELSE IsContinuation(second)

\* the chunk starting at position i: a whole character, or the longest
\* invalid prefix, which becomes one replacement character
Utf8Chunk(s, i) ==
    LET w == Utf8Width(s[i])
    IN  IF w = 1 THEN [valid |-> TRUE, len |-> 1]
        ELSE IF w = 0 THEN [valid |-> FALSE, len |-> 1]
        ELSE IF w = 2
             THEN IF IsContinuation(ByteAt(s, i + 1))
                  THEN [valid |-> TRUE, len |-> 2]
                  ELSE [valid |-> FALSE, len |-> 1]
        ELSE IF ~SecondByteOk(s[i], ByteAt(s, i + 1)) THEN [valid |-> FALSE, len |-> 1]
        ELSE IF ~IsContinuation(ByteAt(s, i + 2)) THEN [valid |-> FALSE, len |-> 2]
        ELSE IF w = 3 THEN [valid |-> TRUE, len |-> 3]
        ELSE IF ~IsContinuation(ByteAt(s, i + 3)) THEN [valid |-> FALSE, len |-> 3]
        ELSE [valid |-> TRUE, len |-> 4]

RECURSIVE LossyFrom(_, _)
LossyFrom(s, i) ==
    IF i > Len(s) THEN <<>>
    ELSE LET c == Utf8Chunk(s, i)
         IN  (IF c.valid THEN SubSeq(s, i, i + c.len - 1) ELSE <<239, 191, 189>>)
                 \o LossyFrom(s, i + c.len)

\* String::from_utf8_lossy(data), as the bytes of the resulting text: invalid
\* sequences become U+FFFD, which is EF BF BD
from_utf8_lossy(data) == LossyFrom(data, 1)

\* "A", "B", an invalid byte, a two-byte character
WriteData == {<<65>>, <<66>>, <<255>>, <<195, 169>>}

\* write_effect saying the text again when the first say failed
write_effect_retrying(fs, ino, offset, data, say_ok) ==
    IF ino \in DOMAIN fs /\ fs[ino].ty.kind = "ChannelFile"
    THEN LET text == from_utf8_lossy(data)
             post == [channel |-> fs[ino].ty.channel, text |-> text]
         IN  [said  |-> IF say_ok THEN <<post>> ELSE <<post, post>>,
              reply |-> IF say_ok
                        THEN [kind |-> "written", size |-> Len(text)]
                        ELSE ErrorReply(EIO)]
    ELSE [said |-> <<>>, reply |-> NoReply]

\* what one write request does: the say calls it makes, and its reply (none
\* when the inode is not a channel file)
write_effect(fs, ino, offset, data, say_ok) ==
    IF ino \in DOMAIN fs /\ fs[ino].ty.kind = "ChannelFile"
    THEN LET text == from_utf8_lossy(data)
         IN  [said  |-> <<[channel |-> fs[ino].ty.channel, text |-> text]>>,
              reply |-> IF say_ok
                        THEN [kind |-> "written", size |-> Len(text)]
                        ELSE ErrorReply(EIO)]
    ELSE [said |-> <<>>, reply |-> NoReply]

write ==
    /\ Idle
    /\ Len(writes) < MaxWrites
    /\ \E ino \in Inodes, offset \in {0, 1}, data \in WriteData, say_ok \in BOOLEAN :
          LET done == write_effect(files, ino, offset, data, say_ok)
          IN  /\ call' = [op |-> "write", ino |-> ino, offset |-> offset, data |-> data]
              /\ reply' = done.reply
              /\ posts' = posts \o done.said
              /\ writes' = Append(writes, [ino |-> ino, offset |-> offset, data |-> data,
                                           say_ok |-> say_ok, reply |-> done.reply])
    /\ UNCHANGED <<phase, guilds, files, known>>

NextWrite == mainOn(IOClients) \/ write \/ next_request

SpecWrite == Init /\ [][NextWrite]_vars

-----------------------------------------------------------------------------
(* unique_name as its callers use it (main.rs 258-259, 295-296): each      *)
(* result is pushed onto the list the next call is given.                  *)

BaseNames == {"a", "a (1)", "a (2)"}

assign_name ==
    /\ phase = "start"
    /\ Len(known) < MaxKnown
    /\ \E base \in BaseNames :
          LET name == unique_name(base, known)
          IN  /\ call' = [op |-> "unique_name", base |-> base, known_names |-> known]
              /\ reply' = [kind |-> "name", name |-> name]
              /\ known' = Append(known, name)
    /\ UNCHANGED <<phase, guilds, files, writes, posts>>

NextUnique == assign_name

SpecUnique == Init /\ [][NextUnique]_vars

-----------------------------------------------------------------------------
(* Properties.                                                             *)

IsChannelFile(ino) == ino \in DOMAIN files /\ files[ino].ty.kind = "ChannelFile"

IsGuild(ino) == ino \in DOMAIN files /\ files[ino].ty.kind = "Guild"

\* the write requests that addressed a channel file, in the order handled
ChannelWrites == SelectSeq(writes, LAMBDA w : IsChannelFile(w.ino))

\* C1: say is called exactly once per write on a channel file, in the order
\* of the writes, on the channel of the written inode and with the lossily
\* decoded data of that write alone (whatever the offset); a failed say is
\* answered with EIO and not repeated.
C1_OnePostPerWrite ==
    /\ Len(posts) = Len(ChannelWrites)
    /\ \A i \in DOMAIN ChannelWrites :
          LET w == ChannelWrites[i]
          IN  /\ posts[i].channel = files[w.ino].ty.channel
              /\ posts[i].channel = w.ino
              /\ posts[i].text = from_utf8_lossy(w.data)
              /\ (~w.say_ok => w.reply = [kind |-> "error", errno |-> EIO])

\* "A" then "B" written to the same channel file, the second say failing
C1_Witness ==
    /\ Len(writes) = 2
    /\ IsChannelFile(writes[1].ino)
    /\ writes[2].ino = writes[1].ino
    /\ writes[1].data = <<65>> /\ writes[2].data = <<66>>
    /\ writes[1].offset = 0 /\ writes[2].offset = 0
    /\ writes[1].say_ok /\ ~writes[2].say_ok
    /\ Len(posts) = 2
    /\ posts[1].text = <<65>> /\ posts[2].text = <<66>>

\* C2: a write on a channel file whose say succeeds is answered with
\* exactly len(data) bytes written, for every data.
C2_WrittenIsDataLength ==
    \A i \in DOMAIN writes :
        (IsChannelFile(writes[i].ino) /\ writes[i].say_ok)
            => writes[i].reply = [kind |-> "written", size |-> Len(writes[i].data)]

\* the transcript of a fetch: the rendered lines, the last fetched first
C3_B(msgs) ==
    ConcatStr([j \in 1..Len(msgs) |-> RenderMessage(msgs[Len(msgs) + 1 - j])])

\* C3: a read of a channel file whose fetch succeeds answers the empty slice
\* when offset > 0 and offset >= len(B), and otherwise B from offset to its
\* end, whatever the size; offset 0 answers all of B.
C3_ReadSlice ==
    (call.op = "read" /\ IsChannelFile(call.ino) /\ call.fetched.ok)
        => LET B == C3_B(call.fetched.msgs)
           IN  /\ reply.kind = "data"
               /\ (call.offset > 0 /\ call.offset >= Len(B)) => reply.data = ""
               /\ ~(call.offset > 0 /\ call.offset >= Len(B))
                     => reply.data = SubSeq(B, call.offset + 1, Len(B))
               /\ call.offset = 0 => reply.data = B

\* two messages fetched newest first, read from offset 0, one byte asked for
C3_Witness ==
    /\ call.op = "read" /\ IsChannelFile(call.ino) /\ call.fetched.ok
    /\ call.offset = 0 /\ call.size = 1
    /\ call.fetched.msgs =
          <<[author |-> "a", discriminator |-> 1, content |-> "h", attachments |-> <<>>],
            [author |-> "b", discriminator |-> 42, content |-> "h",
             attachments |-> <<"u">>]>>
    /\ reply = [kind |-> "data", data |-> "b#0042: h u \na#0001: h\n"]

\* C4: after a successful build, two distinct records with the same parent
\* have different names.
C4_SiblingNamesDiffer ==
    phase = "mounted"
        => \A i, j \in DOMAIN files :
              (i # j /\ files[i].parent = files[j].parent)
                  => files[i].filename # files[j].filename

\* two guilds returned under one name, and two text channels of one guild
\* of which one got a suffix
C4_Witness ==
    /\ phase = "mounted"
    /\ Len(guilds) = 2 /\ guilds[1].name = guilds[2].name
    /\ \E i, j \in DOMAIN files :
          /\ IsChannelFile(i) /\ IsChannelFile(j)
          /\ files[i].parent = files[j].parent
          /\ files[j].filename = Suffixed(files[i].filename, 1)

\* C5: in a built table a record has parent 1 exactly if it is a Guild, and
\* the parent of every ChannelFile is the key of a Guild record.
C5_ParentMatchesKind ==
    phase = "mounted"
        => \A k \in DOMAIN files :
              /\ (files[k].parent = 1) <=> (files[k].ty.kind = "Guild")
              /\ files[k].ty.kind = "ChannelFile" => IsGuild(files[k].parent)

\* a table with two guilds and channel files in both of them
C5_Witness ==
    /\ phase = "mounted"
    /\ \E a, b \in DOMAIN files :
          /\ IsChannelFile(a) /\ IsChannelFile(b)
          /\ files[a].parent # files[b].parent

\* the fixed list L(d): ".", "..", then the records whose parent is d by
\* ascending key
C6_L(d) ==
    LET children == {k \in DOMAIN files : files[k].parent = d}
        nth(m)   == CHOOSE k \in children :
                        Cardinality({c \in children : c < k}) = m - 1
    IN  [m \in 1..(2 + Cardinality(children)) |->
            IF m <= 2
            THEN [ino |-> 1, kind |-> "Directory", name |-> IF m = 1 THEN "." ELSE ".."]
            ELSE [ino  |-> nth(m - 2),
                  kind |-> IF files[nth(m - 2)].ty.kind = "Guild"
                           THEN "Directory" ELSE "RegularFile",
                  name |-> files[nth(m - 2)].filename]]

\* C6: readdir(d, k) on the root or a guild emits the entries of L(d) after
\* the first k, the i-th entry of L(d) with offset i; and resuming from the
\* offset of any entry received yields exactly the entries after it.
C6_ReaddirListing ==
    (call.op = "readdir" /\ (call.ino = 1 \/ IsGuild(call.ino)))
        => LET L == C6_L(call.ino)
               k == call.offset
           IN  /\ reply.kind = "directory"
               /\ Len(reply.entries) = (IF Len(L) > k THEN Len(L) - k ELSE 0)
               /\ \A j \in DOMAIN reply.entries :
                     reply.entries[j] = [ino    |-> L[k + j].ino,
                                         offset |-> k + j,
                                         kind   |-> L[k + j].kind,
                                         name   |-> L[k + j].name]
               /\ \A m \in DOMAIN reply.entries :
                     LET resumed == readdir_reply(files, call.ino, reply.entries[m].offset)
                     IN  /\ resumed.kind = "directory"
                         /\ resumed.entries
                              = SubSeq(reply.entries, m + 1, Len(reply.entries))

\* a guild with two channel files listed from offset 1
C6_Witness ==
    /\ call.op = "readdir" /\ IsGuild(call.ino) /\ call.offset = 1
    /\ reply.kind = "directory"
    /\ Len(reply.entries) = 3
    /\ reply.entries[1].name = ".." /\ reply.entries[1].offset = 2
    /\ reply.entries[2].ino < reply.entries[3].ino
    /\ reply.entries[3].offset = 4

\* C7: readdir answers ENOENT for every inode that is neither the root nor
\* a Guild record: for an inode the table lacks and for a channel file.
C7_ReaddirNotADirectory ==
    (call.op = "readdir" /\ call.ino # 1 /\ ~IsGuild(call.ino))
        => reply = [kind |-> "error", errno |-> ENOENT]

\* the names of the entries of a directory reply, in the order emitted
EntryNames(r) == [j \in 1..Len(r.entries) |-> r.entries[j].name]

\* guilds i < j came back under one name N, and no other guild under N or "N (1)"
C8_SameName(i, j) ==
    /\ i \in DOMAIN guilds /\ j \in DOMAIN guilds /\ i < j
    /\ guilds[i].name = guilds[j].name
    /\ \A h \in DOMAIN guilds \ {i, j} :
          /\ guilds[h].name # guilds[i].name
          /\ guilds[h].name # Suffixed(guilds[i].name, 1)

\* the place of the entry for inode ino in a directory reply (0: not there)
EntryPlace(r, ino) ==
    IF \E m \in 3..Len(r.entries) : r.entries[m].ino = ino
    THEN CHOOSE m \in 3..Len(r.entries) : r.entries[m].ino = ino
    ELSE 0

\* C8 as claimed: of two guilds returned under one name N the first is named
\* N, the second "N (1)", and readdir of the root lists ".", "..", N, "N (1)"
\* in that order, whatever the two identifiers.
C8_FirstListedFirst ==
    \A i, j \in DOMAIN guilds :
        (phase = "mounted" /\ C8_SameName(i, j))
            => /\ files[guilds[i].id].filename = guilds[i].name
               /\ files[guilds[j].id].filename = Suffixed(guilds[i].name, 1)
               /\ (call.op = "readdir" /\ call.ino = 1 /\ call.offset = 0)
                     => /\ reply.kind = "directory"
                        /\ reply.entries[1].name = "." /\ reply.entries[2].name = ".."
                        /\ EntryPlace(reply, guilds[i].id) > 0
                        /\ EntryPlace(reply, guilds[i].id) < EntryPlace(reply, guilds[j].id)
                        /\ Len(guilds) = 2
                              => EntryNames(reply)
                                   = <<".", "..", guilds[i].name, Suffixed(guilds[i].name, 1)>>

\* guilds i < j came back under one name N, and no other guild has a record
\* named N or "N (1)"
C8_SameNameApart(i, j) ==
    /\ i \in DOMAIN guilds /\ j \in DOMAIN guilds /\ i < j
    /\ guilds[i].name = guilds[j].name
    /\ \A h \in DOMAIN guilds \ {i, j} :
          /\ files[guilds[h].id].filename # guilds[i].name
          /\ files[guilds[h].id].filename # Suffixed(guilds[i].name, 1)

\* C8 amended: of two guilds returned under one name N, no other guild
\* having got the name N or "N (1)", the first is named N and the second
\* "N (1)", and readdir of the root lists ".", "..", then the guilds by
\* ascending identifier: N before "N (1)" exactly when the first guild has
\* the smaller identifier.
C8_ListedByIdentifier ==
    \A i, j \in DOMAIN guilds :
        (phase = "mounted" /\ C8_SameNameApart(i, j))
            => /\ files[guilds[i].id].filename = guilds[i].name
               /\ files[guilds[j].id].filename = Suffixed(guilds[i].name, 1)
               /\ (call.op = "readdir" /\ call.ino = 1 /\ call.offset = 0)
                     => /\ reply.kind = "directory"
                        /\ reply.entries[1].name = "." /\ reply.entries[2].name = ".."
                        /\ EntryPlace(reply, guilds[i].id) > 0
                        /\ EntryPlace(reply, guilds[j].id) > 0
                        /\ (EntryPlace(reply, guilds[i].id) < EntryPlace(reply, guilds[j].id))
                              <=> (guilds[i].id < guilds[j].id)
                        /\ Len(guilds) = 2
                              => EntryNames(reply)
                                   = IF guilds[1].id < guilds[2].id
                                     THEN <<".", "..", guilds[1].name,
                                            Suffixed(guilds[1].name, 1)>>
                                     ELSE <<".", "..", Suffixed(guilds[1].name, 1),
                                            guilds[1].name>>

\* two guilds under one name, the first with the larger identifier, and the
\* root listed from offset 0
C8_Witness ==
    /\ phase = "mounted"
    /\ Len(guilds) = 2 /\ C8_SameName(1, 2)
    /\ guilds[1].id > guilds[2].id
    /\ call.op = "readdir" /\ call.ino = 1 /\ call.offset = 0
    /\ EntryNames(reply) = <<".", "..", "a (1)", "a">>

\* C9 as claimed: unique_name(base, L) is base when base is not in L;
\* otherwise it is "base (n)" for an n >= 1, not in L, and with it pushed
\* onto L the next unique_name(base, L) is "base (n+1)".
C9_NextIsSuccessor ==
    call.op = "unique_name"
        => LET base == call.base
               L    == call.known_names
           IN  /\ ~Contains(L, base) => reply.name = base
               /\ Contains(L, base)
                     => \E n \in 1..(Len(L) + 1) :
                           /\ reply.name = Suffixed(base, n)
                           /\ ~Contains(L, reply.name)
                           /\ known = Append(L, reply.name)
                           /\ unique_name(base, known) = Suffixed(base, n + 1)

\* C9 amended: ... with it pushed onto L the next unique_name(base, L) is
\* "base (m)" for the least m > n whose "base (m)" is not in L, which is
\* n + 1 unless "base (n+1)" is in L already.
C9_NextIsNextFree ==
    call.op = "unique_name"
        => LET base == call.base
               L    == call.known_names
           IN  /\ ~Contains(L, base) => reply.name = base
               /\ Contains(L, base)
                     => \E n \in 1..(Len(L) + 1) :
                           /\ reply.name = Suffixed(base, n)
                           /\ ~Contains(L, reply.name)
                           /\ \A h \in 1..(n - 1) : Contains(L, Suffixed(base, h))
                           /\ known = Append(L, reply.name)
                           /\ \E m \in (n + 1)..(Len(known) + 1) :
                                 /\ unique_name(base, known) = Suffixed(base, m)
                                 /\ ~Contains(known, Suffixed(base, m))
                                 /\ \A h \in (n + 1)..(m - 1) :
                                       Contains(known, Suffixed(base, h))
                                 /\ (~Contains(L, Suffixed(base, n + 1))) => m = n + 1

\* "a" collides in a list that holds "a (2)" but not "a (1)": it becomes
\* "a (1)", and the next one "a (3)"
C9_Witness ==
    /\ call.op = "unique_name" /\ call.base = "a"
    /\ Contains(call.known_names, "a") /\ Contains(call.known_names, "a (2)")
    /\ reply.name = "a (1)"
    /\ unique_name("a", known) = "a (3)"

\* the pairs (inode, name) a reply to readdir(p, 0) lists after "." and ".."
C10_Listed(p) ==
    LET r == readdir_reply(files, p, 0)
    IN  IF r.kind = "directory"
        THEN {<<r.entries[m].ino, r.entries[m].name>> : m \in 3..Len(r.entries)}
        ELSE {}

\* C10: for every parent p and every name n, lookup(p, n) answers the
\* attributes of inode i exactly if readdir(p, 0) lists (i, n) after the
\* synthetic entries, and ENOENT when no record matches (p, n); every name
\* readdir lists under p looks up to the inode readdir gave for it.
C10_LookupAgreesWithReaddir ==
    /\ call.op = "lookup"
          => /\ \A i \in Inodes :
                   (reply.kind = "entry" /\ reply.attr.ino = i)
                       <=> (call.name.utf8
                              /\ <<i, call.name.str>> \in C10_Listed(call.parent))
             /\ (\A k \in DOMAIN files :
                     ~(/\ files[k].parent = call.parent
                       /\ call.name.utf8
                       /\ files[k].filename = call.name.str))
                   => reply = [kind |-> "error", errno |-> ENOENT]
    /\ (call.op = "readdir" /\ call.offset = 0 /\ reply.kind = "directory")
          => \A m \in 3..Len(reply.entries) :
                LET found == lookup_reply(files, call.ino, OsStr(reply.entries[m].name))
                IN  found.kind = "entry" /\ found.attr.ino = reply.entries[m].ino

\* C10 for the names that are UTF-8: there lookup and readdir agree
LookupAgreesOnUtf8Names ==
    /\ (call.op = "lookup" /\ call.name.utf8)
          => /\ \A i \in Inodes :
                   (reply.kind = "entry" /\ reply.attr.ino = i)
                       <=> <<i, call.name.str>> \in C10_Listed(call.parent)
             /\ reply.kind = "entry" => reply.attr = files[reply.attr.ino].attr
             /\ (\A k \in DOMAIN files :
                     ~(files[k].parent = call.parent /\ files[k].filename = call.name.str))
                   => reply = [kind |-> "error", errno |-> ENOENT]
             /\ reply.kind \in {"entry", "error"}
    /\ (call.op = "readdir" /\ call.offset = 0 /\ reply.kind = "directory")
          => \A m \in 3..Len(reply.entries) :
                LET found == lookup_reply(files, call.ino, OsStr(reply.entries[m].name))
                IN  found.kind = "entry" /\ found.attr.ino = reply.entries[m].ino

=============================================================================
